---- MODULE Spec2Model ----
(***************************************************************************)
(* Model of the CSV ingestion pipeline (loader.py, simple_database.py) and *)
(* of the sales file generator (generate_sales.py).                        *)
(*                                                                         *)
(* Strings the code parses (directory names, file names) are sequences of  *)
(* one-character strings, so that strptime and the file-name regex are     *)
(* modelled by what they accept and not by a flag.                         *)
(***************************************************************************)
EXTENDS Integers, Sequences, FiniteSets, Bags, TLC

\* Python's None, and SQL's NULL in a text column
None == [none |-> TRUE]

(***************************************************************************)
(* Characters and Python string comparison (by code point).                *)
(***************************************************************************)
Digits == {"0", "1", "2", "3", "4", "5", "6", "7", "8", "9"}

DigitVal(c) ==
    CASE c = "0" -> 0 [] c = "1" -> 1 [] c = "2" -> 2 [] c = "3" -> 3
      [] c = "4" -> 4 [] c = "5" -> 5 [] c = "6" -> 6 [] c = "7" -> 7
      [] c = "8" -> 8 [] c = "9" -> 9

\* ord(c) for the characters that occur in the modelled names
Ord(c) ==
    CASE c \in Digits -> 48 + DigitVal(c)
      [] c = " " -> 32
      [] c = "-" -> 45
      [] c = "." -> 46
      [] c = "C" -> 67
      [] c = "S" -> 83
      [] c = "V" -> 86
      [] c = "_" -> 95
      [] c = "c" -> 99
      [] c = "m" -> 109
      [] c = "p" -> 112
      [] c = "s" -> 115
      [] c = "t" -> 116
      [] c = "v" -> 118
      [] c = "x" -> 120

\* str.lower() on one character
LowerChar(c) ==
    CASE c = "C" -> "c" [] c = "S" -> "s" [] c = "V" -> "v" [] OTHER -> c

Lower(s) == [i \in 1..Len(s) |-> LowerChar(s[i])]

\* Python's s < t on strings
RECURSIVE StrLess(_, _)
StrLess(s, t) ==
    IF s = <<>> THEN t # <<>>
    ELSE IF t = <<>> THEN FALSE
    ELSE IF Ord(Head(s)) # Ord(Head(t)) THEN Ord(Head(s)) < Ord(Head(t))
    ELSE StrLess(Tail(s), Tail(t))

StrLeq(s, t) == s = t \/ StrLess(s, t)

AllDigits(s) == s # <<>> /\ \A i \in 1..Len(s) : s[i] \in Digits

\* int(s) for a string of decimal digits
RECURSIVE ToInt(_)
ToInt(s) ==
    IF s = <<>> THEN 0
    ELSE 10 * ToInt(SubSeq(s, 1, Len(s) - 1)) + DigitVal(s[Len(s)])

\* positions of character c in s
Positions(s, c) == {i \in 1..Len(s) : s[i] = c}

SetMax(S) == CHOOSE x \in S : \A y \in S : y <= x
SetMin(S) == CHOOSE x \in S : \A y \in S : x <= y

(***************************************************************************)
(* datetime.strptime(s, "%Y-%m-%d"): the format's regular expression is    *)
(*   (\d\d\d\d)-(1[0-2]|0[1-9]|[1-9])-(3[0-1]|[1-2]\d|0[1-9]|[1-9]| [1-9]) *)
(* matched against the whole string, then the date must exist.             *)
(***************************************************************************)
MonthField(s) ==
    \/ Len(s) = 2 /\ s[1] = "1" /\ s[2] \in {"0", "1", "2"}
    \/ Len(s) = 2 /\ s[1] = "0" /\ s[2] \in Digits \ {"0"}
    \/ Len(s) = 1 /\ s[1] \in Digits \ {"0"}

DayField(s) ==
    \/ Len(s) = 2 /\ s[1] = "3" /\ s[2] \in {"0", "1"}
    \/ Len(s) = 2 /\ s[1] \in {"1", "2"} /\ s[2] \in Digits
    \/ Len(s) = 2 /\ s[1] = "0" /\ s[2] \in Digits \ {"0"}
    \/ Len(s) = 1 /\ s[1] \in Digits \ {"0"}
    \/ Len(s) = 2 /\ s[1] = " " /\ s[2] \in Digits \ {"0"}

FieldVal(s) == IF Head(s) = " " THEN ToInt(Tail(s)) ELSE ToInt(s)

IsLeap(y) == (y % 4 = 0 /\ y % 100 # 0) \/ y % 400 = 0

DaysInMonth(y, m) ==
    IF m = 2 THEN (IF IsLeap(y) THEN 29 ELSE 28)
    ELSE IF m \in {4, 6, 9, 11} THEN 30 ELSE 31

\* the parsed date [y, m, d], or None where strptime raises ValueError
Strptime(s) ==
    LET dashes == Positions(s, "-") IN
    IF Cardinality(dashes) # 2 THEN None
    ELSE
      LET p1 == SetMin(dashes)
          p2 == SetMax(dashes)
          ys == SubSeq(s, 1, p1 - 1)
          ms == SubSeq(s, p1 + 1, p2 - 1)
          ds == SubSeq(s, p2 + 1, Len(s))
      IN  IF ~(Len(ys) = 4 /\ AllDigits(ys) /\ MonthField(ms) /\ DayField(ds))
          THEN None
          ELSE LET y == ToInt(ys)
                   m == FieldVal(ms)
                   d == FieldVal(ds)
               IN  IF y >= 1 /\ d <= DaysInMonth(y, m)
                   THEN [y |-> y, m |-> m, d |-> d]
                   ELSE None

\* date1 <= date2 on parsed dates
DateLeq(a, b) ==
    a.y * 10000 + a.m * 100 + a.d <= b.y * 10000 + b.m * 100 + b.d

(***************************************************************************)
(* Paths.  A path under the data root is [up, dir, name]: name is the file *)
(* name, dir the name of its parent directory, up the directories above    *)
(* the parent ("" when the parent lies directly under the root).           *)
(***************************************************************************)
PathName(path) == path.name

ParentName(path) == path.dir

\* pathlib's PurePath.suffix
Suffix(name) ==
    LET dots == Positions(name, ".") IN
    IF dots = {} THEN <<>>
    ELSE LET i == SetMax(dots) IN
         IF 1 < i /\ i < Len(name) THEN SubSeq(name, i, Len(name)) ELSE <<>>

\* re.match(r'(\d+)_(\d+)\.csv$', filename.name): [store, cash] or None
extract_store_cash_from_filename(path) ==
    LET name == PathName(path)
        us   == Positions(name, "_")
    IN  IF us = {} THEN None
        ELSE LET u    == SetMin(us)
                 g1   == SubSeq(name, 1, u - 1)
                 rest == SubSeq(name, u + 1, Len(name))
                 g2   == SubSeq(rest, 1, Len(rest) - 4)
                 ext  == SubSeq(rest, Len(rest) - 3, Len(rest))
             IN  IF /\ AllDigits(g1)
                    /\ Len(rest) >= 5
                    /\ AllDigits(g2)
                    /\ ext = <<".", "c", "s", "v">>
                 THEN [store |-> ToInt(g1), cash |-> ToInt(g2)]
                 ELSE None

(***************************************************************************)
(* Files.  A file's content is [size, readable, columns, rows]; a cell of  *)
(* a raw row is [t |-> "nan"] (missing), [t |-> "str", s |-> ...] (text),  *)
(* [t |-> "num", v |-> thousandths] (a number) or [t |-> "inf"].           *)
(***************************************************************************)
NaN == [t |-> "nan"]
Txt(s) == [t |-> "str", s |-> s]
Num(v) == [t |-> "num", v |-> v]
Inf == [t |-> "inf"]

required_columns == {"doc_id", "item", "category", "amount", "price", "discount"}

\* validate_csv_file(filepath); stat() raising is caught and gives False
validate_csv_file(disk_, path) ==
    IF Lower(Suffix(PathName(path))) # <<".", "c", "s", "v">> THEN FALSE
    ELSE IF extract_store_cash_from_filename(path) = None THEN FALSE
    ELSE IF path \notin DOMAIN disk_ THEN FALSE
    ELSE IF disk_[path].size = 0 THEN FALSE
    ELSE TRUE

\* pd.to_numeric(cell, errors='coerce'): a number, or NaN
ToNumeric(cell) == IF cell.t \in {"num", "inf"} THEN cell ELSE NaN

FillNa(cell, v) == IF cell.t = "nan" THEN Num(v) ELSE cell

\* float -> int conversion of astype(int): truncation toward zero
TruncInt(v) == IF v >= 0 THEN v \div 1000 ELSE -((-v) \div 1000)

\* round(2) on a non-negative amount in thousandths (ties to even)
Round2(v) ==
    LET q == v \div 10
        r == v % 10
    IN  IF r < 5 THEN 10 * q
        ELSE IF r > 5 THEN 10 * (q + 1)
        ELSE IF q % 2 = 0 THEN 10 * q ELSE 10 * (q + 1)

\* DropNa as dropna(subset=['doc_id']): rows without item stay
DropNaDocOnly(rows) == SelectSeq(rows, LAMBDA r : r.doc_id.t # "nan")

\* df.dropna(subset=['doc_id', 'item'])
DropNa(rows) ==
    SelectSeq(rows, LAMBDA r : r.doc_id.t # "nan" /\ r.item.t # "nan")

\* the type conversions of one row (loader.py 84-89)
Coerce(r) ==
    [r EXCEPT !.amount   = FillNa(ToNumeric(r.amount), 1000),
              !.price    = FillNa(ToNumeric(r.price), 0),
              !.discount = FillNa(ToNumeric(FillNa(r.discount, 0)), 0)]

\* astype(int) raises on a non-finite amount
CastRaises(rows) == \E i \in 1..Len(rows) : Coerce(rows[i]).amount.t = "inf"

NonNegative(cell) == cell.t = "inf" \/ cell.v >= 0

\* df[(amount > 0) & (price >= 0) & (discount >= 0)] on coerced rows
KeepRow(c) ==
    /\ TruncInt(c.amount.v) > 0
    /\ NonNegative(c.price)
    /\ NonNegative(c.discount)

\* a cleaned row with the metadata of its file, as a dict of df.to_dict
PrepareRow(c, sc, date) ==
    [doc_id       |-> c.doc_id,
     item         |-> c.item,
     category     |-> c.category,
     amount       |-> TruncInt(c.amount.v),
     price        |-> IF c.price.t = "inf" THEN Inf ELSE Num(Round2(c.price.v)),
     discount     |-> IF c.discount.t = "inf" THEN Inf ELSE Num(Round2(c.discount.v)),
     store_id     |-> sc.store,
     cash_id      |-> sc.cash,
     receipt_date |-> date]

\* the cleaning of the parsed rows (loader.py 82-101): kept is the frame
\* after dropna; where astype(int) raises the file is rejected
CleanRows(kept, sc, date) ==
    IF CastRaises(kept) THEN None
    ELSE [rows |-> LET conv == [i \in 1..Len(kept) |-> Coerce(kept[i])]
                   IN  SelectSeq([i \in 1..Len(conv) |->
                                    IF KeepRow(conv[i])
                                    THEN PrepareRow(conv[i], sc, date)
                                    ELSE None],
                                 LAMBDA r : r # None)]

\* read_csv and the column check (loader.py 72-80), then the cleaning
ReadFrame(f, sc, date) ==
    IF f.size = 0 \/ ~f.readable THEN None
    ELSE IF ~(required_columns \subseteq f.columns) THEN None
    ELSE CleanRows(DropNa(f.rows), sc, date)

\* the file-name and path-date part of read_and_prepare_data
ReadWith(disk_, path, sc, date) ==
    IF sc = None THEN None
    ELSE IF date = None THEN None
    ELSE IF path \notin DOMAIN disk_ THEN None
    ELSE ReadFrame(disk_[path], sc, date)

\* read_and_prepare_data(filepath): [rows |-> <<...>>] (the DataFrame) or None
read_and_prepare_data(disk_, path) ==
    ReadWith(disk_, path, extract_store_cash_from_filename(path),
             Strptime(ParentName(path)))

(***************************************************************************)
(* The database.  receipts is the bag of rows of table receipts,           *)
(* processed_files the set of rows of table processed_files (the ledger).  *)
(* A transaction works on a copy [receipts, processed_files] of the        *)
(* committed tables; commit installs the copy, rollback drops it.          *)
(***************************************************************************)
MaxClock == 3
ShortMsg == 40
LongMsg == 250
MsgLimit == 200

\* SELECT count(*) FROM receipts WHERE file_name = %s
CountReceipts(rc, filename) ==
    LET S == {r \in BagToSet(rc) : r.file_name = filename}
    IN  BagCardinality([r \in S |-> rc[r]])

\* a DELETE that removes no row
DeleteNothing(rc, filename) == rc

\* DELETE FROM receipts WHERE file_name = %s
DeleteReceipts(rc, filename) ==
    LET S == {r \in BagToSet(rc) : r.file_name # filename}
    IN  [r \in S |-> rc[r]]

\* the tuple of values of one INSERT INTO receipts
ReceiptValues(row, filename) ==
    [doc_id          |-> row.doc_id,
     store_id        |-> row.store_id,
     cash_id         |-> row.cash_id,
     item            |-> row.item,
     category        |-> row.category,
     quantity        |-> row.amount,
     unit_price      |-> row.price,
     discount_amount |-> row.discount,
     receipt_date    |-> row.receipt_date,
     file_name       |-> filename]

\* the loop of INSERT INTO receipts over the first n rows of data
RECURSIVE InsertReceipts(_, _, _, _)
InsertReceipts(rc, filename, data, n) ==
    IF n = 0 THEN rc
    ELSE InsertReceipts(rc, filename, data, n - 1)
           (+) SetToBag({ReceiptValues(data[n], filename)})

\* column defaults of processed_files (the table's DDL)
DefaultProcessedAt(now) == now
DefaultRecordsCount == None
DefaultErrorMessage == None

\* CURRENT_TIMESTAMP: later than every timestamp already stored
CurrentTimestamp(pf) == 1 + SetMax({e.processed_at : e \in pf} \cup {0})

HasEntry(pf, filename) == \E e \in pf : e.file_name = filename

\* INSERT INTO processed_files (file_name, records_count, status)
\* VALUES (%s, %s, 'success') ON CONFLICT (file_name) DO UPDATE ...
UpsertSuccess(pf, filename, count, now) ==
    IF HasEntry(pf, filename)
    THEN {IF e.file_name = filename
          THEN [e EXCEPT !.processed_at = now,
                         !.status = "success",
                         !.records_count = count]
          ELSE e : e \in pf}
    ELSE pf \cup {[file_name     |-> filename,
                   records_count |-> count,
                   status        |-> "success",
                   error_message |-> DefaultErrorMessage,
                   processed_at  |-> DefaultProcessedAt(now)]}

\* str(e)[:200], a message being known by its length
Truncate(msglen) == IF msglen > MsgLimit THEN MsgLimit ELSE msglen

\* INSERT INTO processed_files (file_name, status, error_message)
\* VALUES (%s, 'error', %s) ON CONFLICT (file_name) DO UPDATE ...
UpsertError(pf, filename, msglen, now) ==
    IF HasEntry(pf, filename)
    THEN {IF e.file_name = filename
          THEN [e EXCEPT !.processed_at = now,
                         !.status = "error",
                         !.error_message = [len |-> Truncate(msglen)]]
          ELSE e : e \in pf}
    ELSE pf \cup {[file_name     |-> filename,
                   records_count |-> DefaultRecordsCount,
                   status        |-> "error",
                   error_message |-> [len |-> Truncate(msglen)],
                   processed_at  |-> DefaultProcessedAt(now)]}

\* conn.commit(): the transaction's tables become the committed ones
Commit(committed, work) == work

\* conn.rollback(): the transaction's changes are dropped
Rollback(committed, work) == committed

(***************************************************************************)
(* What can go wrong in one save_file_data call: the statement at which    *)
(* the first exception is raised (at; for "insert", the k-th row), whether *)
(* the connection is lost by it (broken: conn.rollback() then raises too), *)
(* whether the error write that follows a rollback succeeds (second), and  *)
(* the length of str(e).                                                   *)
(***************************************************************************)
NoFault == [at |-> "none", k |-> 0, broken |-> FALSE, second |-> "none", msglen |-> 0]

ConnectFault == [at |-> "connect", k |-> 0, broken |-> FALSE, second |-> "none", msglen |-> 0]

SaveFaults(data) ==
    LET points == {[at |-> a, k |-> 0] : a \in {"cursor", "delete", "upsert", "commit"}}
                    \cup {[at |-> "insert", k |-> k] : k \in 1..Len(data)}
    IN  {NoFault, ConnectFault}
        \cup {[at |-> p.at, k |-> p.k, broken |-> TRUE, second |-> "none", msglen |-> 0]
                : p \in points}
        \cup {[at |-> p.at, k |-> p.k, broken |-> FALSE, second |-> "fail", msglen |-> 0]
                : p \in points}
        \cup {[at |-> p.at, k |-> p.k, broken |-> FALSE, second |-> "ok", msglen |-> m]
                : p \in points, m \in {ShortMsg, LongMsg}}

\* the tables of the open transaction when the statement fault.at raises
WorkAt(db, filename, data, fault, now) ==
    LET deleted  == DeleteReceipts(db.receipts, filename)
        inserted == InsertReceipts(deleted, filename, data, Len(data))
    IN  CASE fault.at \in {"connect", "cursor", "delete"} -> db
          [] fault.at = "insert" ->
               [db EXCEPT !.receipts =
                   InsertReceipts(deleted, filename, data, fault.k - 1)]
          [] fault.at = "upsert" -> [db EXCEPT !.receipts = inserted]
          [] OTHER ->
               [receipts        |-> inserted,
                processed_files |-> UpsertSuccess(db.processed_files, filename,
                                                  Len(data), now)]

\* save_file_data(filename, data): the committed tables afterwards, the
\* result ("true", "false", or "raised" when an exception leaves the call)
\* and what became of the error write ("none" when it was not attempted)
save_file_data(db, filename, data, fault) ==
    LET now  == CurrentTimestamp(db.processed_files)
        work == WorkAt(db, filename, data, fault, now)
    IN  IF fault.at = "none"
        THEN [db |-> Commit(db, work), ret |-> "true", error_write |-> "none"]
        ELSE IF fault.at = "connect"
        THEN [db |-> db, ret |-> "false", error_write |-> "none"]
        ELSE IF fault.broken
        THEN [db |-> db, ret |-> "raised", error_write |-> "none"]
        ELSE LET rolled == Rollback(db, work) IN
             IF fault.second = "ok"
             THEN [db |-> [rolled EXCEPT !.processed_files =
                             UpsertError(rolled.processed_files, filename,
                                         fault.msglen, now)],
                   ret |-> "false", error_write |-> "ok"]
             ELSE [db |-> rolled, ret |-> "false", error_write |-> "failed"]

\* SelectSuccess looking for a status the ledger never holds
SelectProcessed(pf, filename) ==
    \E e \in pf : e.file_name = filename /\ e.status = "processed"

\* SelectSuccess without `AND status = 'success'`
SelectAnyStatus(pf, filename) == \E e \in pf : e.file_name = filename

\* SELECT 1 FROM processed_files WHERE file_name = %s AND status = 'success'
SelectSuccess(pf, filename) ==
    \E e \in pf : e.file_name = filename /\ e.status = "success"

\* is_file_processed(filename); query_ok = FALSE when connect or the query raises
is_file_processed(pf, filename, query_ok) ==
    IF query_ok THEN SelectSuccess(pf, filename) ELSE FALSE

(***************************************************************************)
(* The loader.                                                             *)
(***************************************************************************)
\* DfRejected as `df is None` alone: an empty frame goes on to save
DfNone(df) == df = None

\* `df is None or df.empty`
DfRejected(df) == df = None \/ df.rows = <<>>

\* what process_file has done when it returns before save is called
NotSaved(db, counters) ==
    [db |-> db, counters |-> counters, validated |-> FALSE, read |-> FALSE,
     saved |-> FALSE, save_ret |-> "none", error_write |-> "none"]

\* process_file from the result s of save_file_data on (loader.py 134-142);
\* an exception raised by save_file_data leaves process_file as well
AfterSave(counters, n, s) ==
    [db |-> s.db, validated |-> TRUE, read |-> TRUE, saved |-> TRUE,
     save_ret |-> s.ret, error_write |-> s.error_write,
     counters |->
        IF s.ret = "true"
        THEN [counters EXCEPT !.processed_count = @ + 1, !.total_records = @ + n]
        ELSE IF s.ret = "false"
        THEN [counters EXCEPT !.error_count = @ + 1]
        ELSE counters,
     outcome |-> IF s.ret = "true" THEN "persisted"
                 ELSE IF s.ret = "false" THEN "persist_failed" ELSE "raised",
     ret |-> s.ret]

\* process_file from the frame df on (loader.py 125-142)
AfterRead(db, counters, filename, df, fault) ==
    IF DfRejected(df)
    THEN [NotSaved(db, counters) EXCEPT !.validated = TRUE, !.read = TRUE]
           @@ [outcome |-> "rejected", ret |-> "false"]
    ELSE AfterSave(counters, Len(df.rows),
                   save_file_data(db, filename, df.rows, fault))

\* process_file(filepath) on committed tables db and the loader's counters:
\* what the call did, its result, and the tables and counters afterwards
process_file(disk_, db, counters, path, query_ok, fault) ==
    IF is_file_processed(db.processed_files, PathName(path), query_ok)
    THEN NotSaved(db, counters) @@ [outcome |-> "skip", ret |-> "true"]
    ELSE IF ~validate_csv_file(disk_, path)
    THEN [NotSaved(db, counters) EXCEPT !.validated = TRUE]
           @@ [outcome |-> "rejected", ret |-> "false"]
    ELSE AfterRead(db, counters, PathName(path),
                   read_and_prepare_data(disk_, path), fault)

\* rglob("*.csv") matches on the file name
GlobCsv(name) ==
    Len(name) >= 4 /\ SubSeq(name, Len(name) - 3, Len(name)) = <<".", "c", "s", "v">>

\* the sort key (x.parent.name, x.name), compared as Python compares tuples
KeyLess(a, b) ==
    \/ StrLess(ParentName(a), ParentName(b))
    \/ ParentName(a) = ParentName(b) /\ StrLess(PathName(a), PathName(b))

\* list.sort is stable: x goes behind every element whose key is not greater
InsertSorted(sorted, x) ==
    LET n == Cardinality({i \in 1..Len(sorted) : ~KeyLess(x, sorted[i])})
    IN  SubSeq(sorted, 1, n) \o <<x>> \o SubSeq(sorted, n + 1, Len(sorted))

RECURSIVE SortByKey(_)
SortByKey(files) ==
    IF files = <<>> THEN <<>>
    ELSE InsertSorted(SortByKey(SubSeq(files, 1, Len(files) - 1)), files[Len(files)])

\* the orders in which rglob may enumerate the files of a directory tree
GlobOrders(disk_) ==
    LET S == {p \in DOMAIN disk_ : GlobCsv(PathName(p))}
        n == Cardinality(S)
    IN  {o \in [1..n -> S] : \A i, j \in 1..n : o[i] = o[j] => i = j}

\* find_csv_files(): the files rglob yields, in its order, whose parent
\* directory name strptime accepts, then sorted
find_csv_files(order) ==
    SortByKey(SelectSeq(order, LAMBDA p : Strptime(ParentName(p)) # None))

\* [f for f in csv_files if f.parent.name == specific_date]; an empty
\* specific_date (no --date) is falsy and filters nothing
FilterDate(files, specific_date) ==
    IF specific_date = <<>> THEN files
    ELSE SelectSeq(files, LAMBDA p : ParentName(p) = specific_date)

(***************************************************************************)
(* The files a data directory is drawn from.                               *)
(***************************************************************************)
MaxFiles == 2

Str_1_1 == <<"1", "_", "1", ".", "c", "s", "v">>
Str_2_1 == <<"2", "_", "1", ".", "c", "s", "v">>
Str_3_2 == <<"3", "_", "2", ".", "c", "s", "v">>
Str_4_1 == <<"4", "_", "1", ".", "c", "s", "v">>
Str_x == <<"x", ".", "c", "s", "v">>
Day0101 == <<"2", "0", "2", "4", "-", "0", "1", "-", "0", "1">>
Day0102 == <<"2", "0", "2", "4", "-", "0", "1", "-", "0", "2">>
Day1001 == <<"2", "0", "2", "4", "-", "1", "0", "-", "0", "1">>
Day201 == <<"2", "0", "2", "4", "-", "2", "-", "0", "1">>
DirTmp == <<"t", "m", "p">>

RawRow(doc, item, amount, price, discount) ==
    [doc_id |-> doc, item |-> item, category |-> Txt("Food"),
     amount |-> amount, price |-> price, discount |-> discount]

Content(rows) ==
    [size |-> 1, readable |-> TRUE, columns |-> required_columns, rows |-> rows]

File(up, dir, name, content) == [path |-> [up |-> up, dir |-> dir, name |-> name],
                                 content |-> content]

Universe ==
    { File("", Day0101, Str_1_1, Content(<<
          RawRow(Txt("A1"), Txt("Bread"), Num(2000), Num(3500), Num(0)),
          RawRow(Txt("A1"), NaN, Num(1000), Num(1000), Num(0)),
          RawRow(Txt("A2"), Txt("Milk"), Num(1000), Num(1200), Num(100))>>)),
      File("", Day0102, Str_1_1, Content(<<
          RawRow(NaN, Txt("Milk"), Num(1000), Num(1200), Num(0)),
          RawRow(Txt("B1"), Txt("Tea"), Num(3000), Num(2000), Num(0))>>)),
      File("old", Day0101, Str_1_1, Content(<<
          RawRow(Txt("A3"), Txt("Salt"), Txt("abc"), Txt("abc"), NaN),
          RawRow(Txt("A4"), Txt("Salt"), Num(500), Num(1000), Num(0)),
          RawRow(Txt("A5"), Txt("Salt"), Num(1000), Num(-1000), Num(0))>>)),
      File("", Day0101, Str_x, Content(<<
          RawRow(Txt("A6"), Txt("Bread"), Num(1000), Num(3500), Num(0))>>)),
      File("", DirTmp, Str_3_2, Content(<<
          RawRow(Txt("A1"), Txt("Bread"), Num(2000), Num(3500), Num(0))>>)),
      File("", Day1001, Str_2_1,
           [Content(<<RawRow(Txt("A7"), Txt("Bread"), Num(1000), NaN, Num(0))>>)
              EXCEPT !.columns = required_columns \ {"price"}]),
      File("", Day201, Str_2_1, Content(<<
          RawRow(NaN, Txt("Tea"), Num(1000), Num(1000), Num(0)),
          RawRow(Txt("A8"), Txt("Tea"), Num(0), Num(1000), Num(0))>>)),
      File("", Day0102, Str_4_1, [Content(<<>>) EXCEPT !.size = 0]) }

\* the data directories: at most MaxFiles files of the universe
Disks ==
    {[p \in {f.path : f \in S} |-> (CHOOSE f \in S : f.path = p).content] :
        S \in {T \in SUBSET Universe : Cardinality(T) \in 1..MaxFiles}}

(***************************************************************************)
(* State.                                                                  *)
(***************************************************************************)
VARIABLES
    disk,             \* the data directory: path -> content
    receipts,         \* table receipts (a bag of rows)
    processed_files,  \* table processed_files (a set of rows)
    mode,             \* what main() was started for: "none", "all" or "file"
    pc,               \* "idle", "running", "done", "crashed": the loader process
    csv_files,        \* the files of the current run, in processing order
    processed,        \* the files process_file has been called on in this run
    counters,         \* processed_count, error_count, total_records
    last,             \* what the latest step did
    stores,           \* DataGenerator.stores: store_id -> its cash registers
    gen               \* the generator process: where main() of generate_sales is

vars == <<disk, receipts, processed_files, mode, pc, csv_files, processed, counters, last,
          stores, gen>>

\* the state of the loader process, and of the generator process
loadervars == <<mode, pc, csv_files, processed, counters>>

genvars == <<stores, gen>>

\* no generator process
NoGenerator == [pc |-> "none", runs |-> 0, cur |-> None, end |-> None, total |-> 0]

ZeroCounters == [processed_count |-> 0, error_count |-> 0, total_records |-> 0]

Init ==
    /\ disk \in Disks
    /\ receipts = EmptyBag
    /\ processed_files = {}
    /\ mode = "none"
    /\ pc = "idle"
    /\ csv_files = <<>>
    /\ processed = <<>>
    /\ counters = ZeroCounters
    /\ last = [op |-> "init"]
    /\ stores = <<>>
    /\ gen = NoGenerator

Db == [receipts |-> receipts, processed_files |-> processed_files]

\* status of the ledger entry of filename: "none", "success" or "error"
LedgerStatus(pf, filename) ==
    IF HasEntry(pf, filename)
    THEN (CHOOSE e \in pf : e.file_name = filename).status
    ELSE "none"

\* the faults a process_file call on path can meet
FaultsFor(df) == IF DfRejected(df) THEN {NoFault} ELSE SaveFaults(df.rows)

FaultChoices(path) == FaultsFor(read_and_prepare_data(disk, path))

\* one call process_file(path) by the loader whose counters are cnt
CallProcessFile(path, cnt, query_ok, fault) ==
    \E r \in {process_file(disk, Db, cnt, path, query_ok, fault)} :
    /\ \/ r.db.processed_files = processed_files
       \/ CurrentTimestamp(processed_files) <= MaxClock
    /\ receipts' = r.db.receipts
    /\ processed_files' = r.db.processed_files
    /\ counters' = r.counters
    /\ last' = [op |-> "process_file", path |-> path,
                before |-> LedgerStatus(processed_files, PathName(path)),
                query_ok |-> query_ok, outcome |-> r.outcome, ret |-> r.ret,
                validated |-> r.validated, read |-> r.read, saved |-> r.saved,
                save_ret |-> r.save_ret, error_write |-> r.error_write]

\* process_all_files(specific_date) up to its loop: a new loader finds the
\* files and filters them; with nothing found it returns at once
StartRun(order, specific_date) ==
    /\ pc = "idle"
    /\ mode' = "all"
    /\ \E found \in {find_csv_files(order)} :
       /\ csv_files' = IF found = <<>> THEN <<>> ELSE FilterDate(found, specific_date)
       /\ pc' = IF found = <<>> THEN "done" ELSE "running"
       /\ last' = [op |-> "find", found |-> found, specific_date |-> specific_date]
    /\ processed' = <<>>
    /\ counters' = ZeroCounters
    /\ UNCHANGED <<disk, receipts, processed_files, genvars>>

\* one iteration of `for csv_file in csv_files: self.process_file(csv_file)`
\* an exception that leaves process_file leaves process_all_files too
RunStep(query_ok) ==
    /\ pc = "running"
    /\ Len(processed) < Len(csv_files)
    /\ LET path == csv_files[Len(processed) + 1] IN
       /\ \E fault \in FaultChoices(path) :
             CallProcessFile(path, counters, query_ok, fault)
       /\ processed' = Append(processed, [path |-> path, outcome |-> last'.outcome])
    /\ pc' = IF last'.ret = "raised" THEN "crashed" ELSE "running"
    /\ UNCHANGED <<disk, mode, csv_files, genvars>>

\* the loop is over: process_all_files returns the statistics
FinishRun ==
    /\ pc = "running"
    /\ Len(processed) = Len(csv_files)
    /\ pc' = "done"
    /\ last' = [op |-> "finish"]
    /\ UNCHANGED <<disk, receipts, processed_files, mode, csv_files, processed, counters, genvars>>

\* main() with --file: a new loader calls process_file on one existing file
ProcessSingle(path, query_ok) ==
    /\ pc = "idle"
    /\ mode' = "file"
    /\ path \in DOMAIN disk
    /\ \E fault \in FaultChoices(path) :
          CallProcessFile(path, ZeroCounters, query_ok, fault)
    /\ pc' = IF last'.ret = "raised" THEN "crashed" ELSE "done"
    /\ csv_files' = <<path>>
    /\ processed' = <<[path |-> path, outcome |-> last'.outcome]>>
    /\ UNCHANGED <<disk, genvars>>

\* the loader process ends; the database stays
Exit ==
    /\ pc \in {"done", "crashed"}
    /\ pc' = "idle"
    /\ mode' = "none"
    /\ csv_files' = <<>>
    /\ processed' = <<>>
    /\ counters' = ZeroCounters
    /\ last' = [op |-> "exit"]
    /\ UNCHANGED <<disk, receipts, processed_files, genvars>>

Next ==
    \/ \E order \in GlobOrders(disk), d \in {<<>>} \cup {ParentName(p) : p \in DOMAIN disk} :
          StartRun(order, d)
    \/ \E query_ok \in BOOLEAN : RunStep(query_ok)
    \/ FinishRun
    \/ \E path \in DOMAIN disk, query_ok \in BOOLEAN : ProcessSingle(path, query_ok)
    \/ Exit

Spec == Init /\ [][Next]_vars

(***************************************************************************)
(* The generator (generate_sales.py).  Its configuration module is not     *)
(* part of the sources; the values below are the configuration it reads.   *)
(***************************************************************************)
MIN_CASH_REGISTERS_PER_STORE == 1

MAX_CASH_REGISTERS_PER_STORE == 2

Day0106 == <<"2", "0", "2", "4", "-", "0", "1", "-", "0", "6">>
Day0107 == <<"2", "0", "2", "4", "-", "0", "1", "-", "0", "7">>
Day17 == <<"2", "0", "2", "4", "-", "1", "-", "7">>
Day0230 == <<"2", "0", "2", "4", "-", "0", "2", "-", "3", "0">>

\* GENERATION_SETTINGS['holidays']: a list of "%Y-%m-%d" strings
holidays == {Day0101}

\* the model's bounds: --stores, and the generator processes of a behaviour
MaxStores == 2
MaxRuns == 2

\* date.toordinal(): days since 0001-01-01, that day being 1
DaysBeforeYear(y) ==
    (y - 1) * 365 + (y - 1) \div 4 - (y - 1) \div 100 + (y - 1) \div 400

RECURSIVE DaysBeforeMonth(_, _)
DaysBeforeMonth(y, m) ==
    IF m = 1 THEN 0 ELSE DaysBeforeMonth(y, m - 1) + DaysInMonth(y, m - 1)

ToOrdinal(dt) == DaysBeforeYear(dt.y) + DaysBeforeMonth(dt.y, dt.m) + dt.d

\* datetime.weekday(): Monday is 0, Sunday is 6
Weekday(dt) == (ToOrdinal(dt) + 6) % 7

\* current_date + timedelta(days=1)
NextDay(dt) ==
    IF dt.d < DaysInMonth(dt.y, dt.m) THEN [dt EXCEPT !.d = dt.d + 1]
    ELSE IF dt.m < 12 THEN [y |-> dt.y, m |-> dt.m + 1, d |-> 1]
    ELSE [y |-> dt.y + 1, m |-> 1, d |-> 1]

DigitChar(n) == CHOOSE c \in Digits : DigitVal(c) = n

\* str(n) for n >= 0
RECURSIVE IntStr(_)
IntStr(n) ==
    IF n < 10 THEN <<DigitChar(n)>> ELSE Append(IntStr(n \div 10), DigitChar(n % 10))

\* n in decimal, zero-padded to width w
RECURSIVE ZeroPad(_, _)
ZeroPad(str, w) == IF Len(str) >= w THEN str ELSE ZeroPad(<<"0">> \o str, w)

\* target_date.strftime("%Y-%m-%d") (years 1000..9999)
Strftime(dt) ==
    IntStr(dt.y) \o <<"-">> \o ZeroPad(IntStr(dt.m), 2) \o <<"-">> \o ZeroPad(IntStr(dt.d), 2)

\* initialize_stores(): store ids 1..num_stores, each with cash registers
\* 1..num_cash_registers[store]
initialize_stores(num_cash_registers) ==
    [store_id \in 1..Len(num_cash_registers) |->
        [cash_id \in 1..num_cash_registers[store_id] |-> cash_id]]

\* the (store_id, cash_id) pairs in the order of the two loops
RECURSIVE StorePairsFrom(_, _)
StorePairsFrom(stores_, store_id) ==
    IF store_id > Len(stores_) THEN <<>>
    ELSE [i \in 1..Len(stores_[store_id]) |-> <<store_id, stores_[store_id][i]>>]
           \o StorePairsFrom(stores_, store_id + 1)

StorePairs(stores_) == StorePairsFrom(stores_, 1)

\* day_dir / f"{store_id}_{cash_id}.csv"
GenPath(date_str, pair) ==
    [up |-> "", dir |-> date_str,
     name |-> IntStr(pair[1]) \o <<"_">> \o IntStr(pair[2]) \o <<".", "c", "s", "v">>]

\* what df.to_csv writes: the nine columns and one row per line-item; one
\* line-item stands for the random rows, which the generator never reads back
GenContent ==
    [size |-> 1, readable |-> TRUE,
     columns |-> required_columns \cup {"store_id", "cash_id", "receipt_date"},
     rows |-> <<RawRow(Txt("G1"), Txt("Bread"), Num(1000), Num(3500), Num(0))>>]

\* the data directory after df.to_csv(filename) for each path of the list
WriteFiles(disk_, paths, content) ==
    [p \in DOMAIN disk_ \cup {paths[i] : i \in 1..Len(paths)} |->
        IF \E i \in 1..Len(paths) : paths[i] = p THEN content ELSE disk_[p]]

\* the weekday test with Saturday in place of Sunday
SkipDaySaturday(dt, force) ==
    \/ Weekday(dt) = 5 /\ ~force
    \/ Strftime(dt) \in holidays /\ ~force

\* the two early returns: Sunday, or a listed holiday, and not force
SkipDay(dt, force) ==
    \/ Weekday(dt) = 6 /\ ~force
    \/ Strftime(dt) \in holidays /\ ~force

\* target_date as the function takes it: a string (parsed by strptime) or a
\* datetime
TargetDate(target) == IF "str" \in DOMAIN target THEN Strptime(target.str) ELSE target.dt

GenerateOn(disk_, dt, force, paths) ==
    IF SkipDay(dt, force)
    THEN [disk |-> disk_, raised |-> FALSE, ret |-> 0, written |-> <<>>, date |-> dt]
    ELSE [disk |-> WriteFiles(disk_, paths, GenContent), raised |-> FALSE,
          ret |-> Len(paths), written |-> paths, date |-> dt]

GenerateAt(stores_, disk_, dt, force) ==
    IF dt = None
    THEN [disk |-> disk_, raised |-> TRUE, ret |-> -1, written |-> <<>>, date |-> None]
    ELSE GenerateOn(disk_, dt, force,
               [i \in 1..Len(StorePairs(stores_)) |->
                   GenPath(Strftime(dt), StorePairs(stores_)[i])])

\* generate_daily_files(target_date, force)
generate_daily_files(stores_, disk_, target, force) ==
    GenerateAt(stores_, disk_, TargetDate(target), force)

\* the dates the generator is started with: --date strings and today
GenDateStrs == {Day0101, Day0106, Day0107, Day17, Day0230}

GenTargets == {[str |-> str] : str \in GenDateStrs} \cup {[dt |-> Strptime(Day0106)]}

RangeEnds == {Day0106, Day0107, Day0230}

GenInit ==
    /\ disk = <<>>
    /\ receipts = EmptyBag
    /\ processed_files = {}
    /\ mode = "none"
    /\ pc = "idle"
    /\ csv_files = <<>>
    /\ processed = <<>>
    /\ counters = ZeroCounters
    /\ last = [op |-> "init"]
    /\ stores = <<>>
    /\ gen = NoGenerator

\* one call generate_daily_files(target, force) by the generator
CallGenerateDaily(target, force) ==
    \E r \in {generate_daily_files(stores, disk, target, force)} :
    /\ disk' = r.disk
    /\ last' = [op |-> "generate", date |-> r.date, force |-> force, raised |-> r.raised,
                ret |-> r.ret, written |-> r.written]

\* main(): DataGenerator(num_stores=args.stores)
NewGenerator(num_cash_registers) ==
    /\ gen.pc = "none"
    /\ gen.runs < MaxRuns
    /\ stores' = initialize_stores(num_cash_registers)
    /\ gen' = [gen EXCEPT !.pc = "ready", !.runs = gen.runs + 1]
    /\ last' = [op |-> "new"]
    /\ UNCHANGED <<disk, receipts, processed_files, loadervars>>

\* main() with --date, or with no date (today)
GenerateDate(target, force) ==
    /\ gen.pc = "ready"
    /\ CallGenerateDaily(target, force)
    /\ gen' = [gen EXCEPT !.pc = IF last'.raised THEN "crashed" ELSE "done"]
    /\ UNCHANGED <<stores, receipts, processed_files, loadervars>>

\* generate_date_range(start_date, end_date) up to its loop
StartRange(start_date, end_date) ==
    /\ gen.pc = "ready"
    /\ \E start \in {Strptime(start_date)}, end \in {Strptime(end_date)} :
          gen' = IF start = None \/ end = None
                 THEN [gen EXCEPT !.pc = "crashed"]
                 ELSE [gen EXCEPT !.pc = "range", !.cur = start, !.end = end, !.total = 0]
    /\ last' = [op |-> "range"]
    /\ UNCHANGED <<disk, stores, receipts, processed_files, loadervars>>

\* one iteration of `while current_date <= end`
RangeStep ==
    /\ gen.pc = "range"
    /\ DateLeq(gen.cur, gen.end)
    /\ CallGenerateDaily([dt |-> gen.cur], FALSE)
    /\ gen' = [gen EXCEPT !.cur = NextDay(gen.cur), !.total = gen.total + last'.ret]
    /\ UNCHANGED <<stores, receipts, processed_files, loadervars>>

\* the loop is over: generate_date_range returns total_files
FinishRange ==
    /\ gen.pc = "range"
    /\ ~DateLeq(gen.cur, gen.end)
    /\ gen' = [gen EXCEPT !.pc = "done"]
    /\ last' = [op |-> "range_done", total |-> gen.total]
    /\ UNCHANGED <<disk, stores, receipts, processed_files, loadervars>>

\* the generator process ends; the files stay
GenExit ==
    /\ gen.pc \in {"done", "crashed"}
    /\ gen' = [NoGenerator EXCEPT !.runs = gen.runs]
    /\ stores' = <<>>
    /\ last' = [op |-> "exit"]
    /\ UNCHANGED <<disk, receipts, processed_files, loadervars>>

GenNext ==
    \/ \E num_stores \in 0..MaxStores :
       \E num_cash_registers \in [1..num_stores ->
              MIN_CASH_REGISTERS_PER_STORE..MAX_CASH_REGISTERS_PER_STORE] :
          NewGenerator(num_cash_registers)
    \/ \E target \in GenTargets, force \in BOOLEAN : GenerateDate(target, force)
    \/ \E start_date \in RangeEnds, end_date \in RangeEnds : StartRange(start_date, end_date)
    \/ RangeStep
    \/ FinishRange
    \/ GenExit

GenSpec == GenInit /\ [][GenNext]_vars

(***************************************************************************)
(* Properties.                                                             *)
(***************************************************************************)
IsCall(l) == l.op = "process_file"

\* the cleaned rows of the file at path, as save_file_data would get them
DataOf(path) == read_and_prepare_data(disk, path).rows

\* the file at path is turned down by the validator or the transformer
Rejected(path) ==
    ~validate_csv_file(disk, path) \/ read_and_prepare_data(disk, path) = None
      \/ DataOf(path) = <<>>

\* the call described by l did nothing and reported success
NoOp(l) ==
    /\ l.outcome = "skip" /\ l.ret = "true"
    /\ ~l.validated /\ ~l.read /\ ~l.saved

\* table rc holds, for filename, exactly the rows of data
HoldsExactly(rc, filename, data) ==
    /\ CountReceipts(rc, filename) = Len(data)
    /\ \A i \in 1..Len(data) : BagIn(ReceiptValues(data[i], filename), rc)

\* the ledger entry of filename
Entry(pf, filename) == CHOOSE e \in pf : e.file_name = filename

\* C1 (as stated): process_file on a file whose ledger entry has status
\* success is a no-op: nothing is validated, read or saved, receipts and the
\* ledger are unchanged and the call reports success.
C1_RerunIsNoOp ==
    [][(/\ IsCall(last')
        /\ LedgerStatus(processed_files, PathName(last'.path)) = "success")
         => /\ NoOp(last')
            /\ receipts' = receipts
            /\ processed_files' = processed_files]_vars

\* C1 (amended): the same, provided the ledger lookup of is_file_processed
\* itself succeeds; a failed lookup counts as "not processed".
C1_RerunIsNoOpWhenLookupWorks ==
    [][(/\ IsCall(last')
        /\ last'.query_ok
        /\ LedgerStatus(processed_files, PathName(last'.path)) = "success")
         => /\ NoOp(last')
            /\ receipts' = receipts
            /\ processed_files' = processed_files]_vars

C1_Witness ==
    /\ IsCall(last) /\ last.before = "success" /\ last.query_ok
    /\ last.outcome = "skip"
    /\ receipts # EmptyBag

\* C2: process_file on a file whose ledger entry is error or absent does not
\* skip: it validates, reads the file when it is valid, calls save when rows
\* survive, and a call that succeeds leaves the entry at success with the
\* file's rows persisted.
C2_RetryAfterError ==
    [][(/\ IsCall(last')
        /\ LedgerStatus(processed_files, PathName(last'.path)) # "success")
         => /\ last'.outcome # "skip"
            /\ last'.validated
            /\ validate_csv_file(disk, last'.path) => last'.read
            /\ ~Rejected(last'.path) => last'.saved
            /\ last'.ret = "true" =>
                 /\ LedgerStatus(processed_files', PathName(last'.path)) = "success"
                 /\ HoldsExactly(receipts', PathName(last'.path),
                                 DataOf(last'.path))]_vars

C2_Witness ==
    /\ IsCall(last) /\ last.before = "error" /\ last.outcome = "persisted"
    /\ LedgerStatus(processed_files, PathName(last.path)) = "success"

\* C3: a save in which a statement or the commit fails leaves receipts as it
\* was and returns false; save returns true only when the delete, every
\* insert and the success entry were committed together.
C3_AtomicSave ==
    [][(IsCall(last') /\ last'.saved)
         => /\ last'.save_ret # "true" =>
                 receipts' = receipts /\ last'.save_ret = "false"
            /\ last'.save_ret = "true" =>
                 /\ HoldsExactly(receipts', PathName(last'.path), DataOf(last'.path))
                 /\ DeleteReceipts(receipts', PathName(last'.path))
                      = DeleteReceipts(receipts, PathName(last'.path))
                 /\ LedgerStatus(processed_files', PathName(last'.path)) = "success"]_vars

\* a raw row with every field present and in range
WellFormed(raw) ==
    /\ raw.doc_id.t = "str" /\ raw.item.t = "str" /\ raw.category.t = "str"
    /\ raw.amount.t = "num" /\ raw.amount.v >= 1000 /\ raw.amount.v % 1000 = 0
    /\ raw.price.t = "num" /\ raw.price.v >= 0
    /\ raw.discount.t = "num" /\ raw.discount.v >= 0

MissingId(raw) == raw.doc_id.t = "nan" \/ raw.item.t = "nan"

CountWellFormed(rows) == Cardinality({i \in 1..Len(rows) : WellFormed(rows[i])})

CountMissingId(rows) == Cardinality({i \in 1..Len(rows) : MissingId(rows[i])})

\* the file at path holds well-formed rows and rows without doc_id or item
OnlyWellFormedOrMissingId(path) ==
    \A i \in 1..Len(disk[path].rows) :
        WellFormed(disk[path].rows[i]) \/ MissingId(disk[path].rows[i])

\* C4: when a file of N >= 1 well-formed rows and M rows without doc_id or
\* item has been persisted, receipts holds exactly N rows of that file name
\* and the ledger entry is success with records_count = N.
C4_RowCount ==
    (/\ IsCall(last) /\ last.outcome = "persisted"
     /\ OnlyWellFormedOrMissingId(last.path))
      => LET n == CountWellFormed(disk[last.path].rows)
             e == Entry(processed_files, PathName(last.path))
         IN  /\ CountReceipts(receipts, PathName(last.path)) = n
             /\ e.status = "success"
             /\ e.records_count = n

C4_Witness ==
    /\ IsCall(last) /\ last.outcome = "persisted"
    /\ OnlyWellFormedOrMissingId(last.path)
    /\ CountMissingId(disk[last.path].rows) >= 1
    /\ CountReceipts(receipts, PathName(last.path)) = 2

\* C5: after a run, the error counter equals the number of files that ended
\* rejected or persist-failed.
C5_ErrorCount ==
    (mode = "all" /\ pc = "done") =>
        counters.error_count =
            Cardinality({i \in 1..Len(processed) :
                            processed[i].outcome \in {"rejected", "persist_failed"}})

\* C6: on any failure of save, the connection failing to open included, the
\* error entry is attempted; if that write succeeds the ledger shows error
\* with a message of at most 200 characters, and save returns false.
C6_ErrorEntry ==
    (IsCall(last) /\ last.saved /\ last.save_ret # "true")
      => /\ last.error_write # "none"
         /\ last.save_ret = "false"
         /\ last.error_write = "ok" =>
              LET e == Entry(processed_files, PathName(last.path))
              IN  e.status = "error" /\ e.error_message.len <= MsgLimit

\* receipts holds a row of the file name and date directory of path
HasRowsOf(rc, path) ==
    \E r \in BagToSet(rc) :
        /\ r.file_name = PathName(path)
        /\ r.receipt_date = Strptime(ParentName(path))

\* C7: a file is the pair of its name and date directory, so a file of
\* another date directory than the one ingested is not skipped: whenever
\* process_file skips a file, rows of that very name and date are persisted.
C7_FileIdentity ==
    (/\ IsCall(last) /\ last.outcome = "skip"
     /\ Strptime(ParentName(last.path)) # None)
      => HasRowsOf(receipts, last.path)

\* C8: find_csv_files returns exactly the *.csv files whose parent directory
\* name parses as a date, ordered by (directory name, file name) as strings,
\* and that order never goes back in the calendar.
C8_Discovery ==
    last.op = "find" =>
        LET f == last.found IN
        /\ {f[i] : i \in 1..Len(f)} =
             {p \in DOMAIN disk : GlobCsv(PathName(p)) /\ Strptime(ParentName(p)) # None}
        /\ \A i, j \in 1..Len(f) : i < j =>
             /\ f[i] # f[j]
             /\ ~KeyLess(f[j], f[i])
             /\ DateLeq(Strptime(ParentName(f[i])), Strptime(ParentName(f[j])))

\* C9: process_file on a file the validator or the transformer turns down
\* never calls save and leaves receipts and the ledger as they were.
C9_RejectedUntouched ==
    [][(IsCall(last') /\ Rejected(last'.path))
         => /\ ~last'.saved
            /\ receipts' = receipts
            /\ processed_files' = processed_files]_vars

C9_Witness ==
    /\ IsCall(last) /\ last.outcome = "rejected" /\ last.read
    /\ receipts # EmptyBag

\* C10: a run calls process_file on the files of its list in order, no error
\* on one file keeps the following ones from being processed, and the run
\* ends by returning its statistics.
C10_RunCompletes ==
    mode = "all" =>
        /\ pc # "crashed"
        /\ Len(processed) <= Len(csv_files)
        /\ \A i \in 1..Len(processed) : processed[i].path = csv_files[i]
        /\ pc = "done" => Len(processed) = Len(csv_files)

\* the paths of one file per (store, cash register) pair of the initialized
\* stores, under the directory of date dt
PairPaths(dt) ==
    {[up |-> "", dir |-> Strftime(dt),
      name |-> IntStr(s) \o <<"_">> \o IntStr(stores[s][i]) \o <<".", "c", "s", "v">>] :
        <<s, i>> \in {q \in (1..Len(stores)) \X (1..MAX_CASH_REGISTERS_PER_STORE) :
                         q[2] <= Len(stores[q[1]])}}

IsSkipDay(dt) == Weekday(dt) = 6 \/ Strftime(dt) \in holidays

\* C11: generate_daily_files(date, force) returns 0 and writes no file when
\* the date is a Sunday or a listed holiday and force is false; in every other
\* case it writes exactly one file per (store, cash register) pair of the
\* initialized stores, and nothing else, and returns the number of those files.
C11_SkipDays ==
    [][(last'.op = "generate" /\ last'.date # None) =>
         IF IsSkipDay(last'.date) /\ ~last'.force
         THEN last'.ret = 0 /\ last'.written = <<>> /\ disk' = disk
         ELSE /\ last'.ret = Cardinality(PairPaths(last'.date))
              /\ Len(last'.written) = last'.ret
              /\ {last'.written[i] : i \in 1..Len(last'.written)} = PairPaths(last'.date)
              /\ DOMAIN disk' = DOMAIN disk \cup PairPaths(last'.date)
              /\ \A p \in DOMAIN disk \ PairPaths(last'.date) : disk'[p] = disk[p]]_vars

\* a Sunday without force after which nothing is on disk, the stores having
\* cash registers
C11_Witness ==
    /\ last.op = "generate" /\ last.date = [y |-> 2024, m |-> 1, d |-> 7]
    /\ ~last.force /\ last.ret = 0
    /\ Len(StorePairs(stores)) >= 2
    /\ DOMAIN disk = {}

\* C12: the ledger holds at most one entry per file name, and after a save
\* attempt on a file name its entry, when there is one, shows that attempt:
\* its status, its timestamp and its row count, no value of an earlier
\* attempt being left.
C12_LedgerUpsert ==
    [][(IsCall(last') /\ last'.saved) =>
         LET filename == PathName(last'.path) IN
         /\ Cardinality({e \in processed_files' : e.file_name = filename}) <= 1
         /\ HasEntry(processed_files', filename) =>
              /\ Entry(processed_files', filename).status =
                   (IF last'.ret = "true" THEN "success" ELSE "error")
              /\ Entry(processed_files', filename).processed_at =
                   CurrentTimestamp(processed_files)
              /\ last'.ret = "true" =>
                   Entry(processed_files', filename).records_count =
                     Len(DataOf(last'.path))
              /\ (last'.ret # "true"
                    /\ LedgerStatus(processed_files, filename) = "success") =>
                   Entry(processed_files', filename).records_count #
                     Entry(processed_files, filename).records_count]_vars

\* C13: for every ledger entry with status success, the number of rows of
\* receipts tagged with its file name equals its records_count.
C13_LedgerMatchesRows ==
    \A e \in processed_files :
        e.status = "success" => CountReceipts(receipts, e.file_name) = e.records_count

\* a file re-ingested over a success entry of the same name, the lookup
\* having failed open, and now holding another number of rows
C13_Witness ==
    /\ IsCall(last) /\ last.before = "success" /\ ~last.query_ok
    /\ last.outcome = "persisted" /\ ParentName(last.path) = Day0102
    /\ Entry(processed_files, PathName(last.path)).records_count = 1
    /\ CountReceipts(receipts, PathName(last.path)) = 1

====
